---- MODULE Spec2Model ----
(***************************************************************************)
(* Model of scripts/batch_geocode_google.py: the batch driver main(), the  *)
(* address extractor parse_sheet(), the CSV lookup cache                   *)
(* (load_or_create_cache / save_cache) and the retrying provider adapter   *)
(* geocode_one().                                                          *)
(*                                                                         *)
(* Values.  Every cell of a DataFrame or of the CSV file is a string.  The *)
(* two null objects of the Python side are the tokens NoneObj (Python's    *)
(* None, as main() writes it into a result row) and NaN (the float NaN     *)
(* that read_csv and a left merge produce).  Text that the code takes      *)
(* apart (spreadsheet cells, exception messages) is a sequence of chunks;  *)
(* Join gives the Python string.                                           *)
(***************************************************************************)
EXTENDS Integers, Sequences, FiniteSets, TLC

VARIABLES
    api_key,      \* os.getenv("GOOGLE_MAPS_API_KEY") of the current run
    xlsx,         \* the input workbook: [de |-> rows, at |-> rows]
    disk,         \* the cache file: [state |-> "absent" | "corrupt" | "csv", lines]
    out_file,     \* the output workbook: [written, de, at]
    pc,           \* position of main()
    exit_code,    \* process exit status, -1 while the run is going
    combined,     \* main.combined
    cache_df,     \* main.cache_df
    to_fetch,     \* main.to_fetch
    idx,          \* position of the for loop in to_fetch (1-based)
    results,      \* main.results
    attempt,      \* tenacity's attempt_number inside the current geocode_one call
    attempt_log,  \* history: how each attempt of the current call ended
    called,       \* history: the addresses geocode_one was invoked for, in order
    loaded,       \* history: cache_df as load_or_create_cache returned it
    disk0,        \* history: the cache file when the run started
    saves,        \* history: the number of save_cache calls of the run
    tenacity,     \* the installed tenacity: the exponent of the first backoff wait
    waits,        \* history: the backoff waits of the current geocode_one call
    sleeps        \* history: the number of time.sleep(args.sleep) calls of the run

vars == <<api_key, xlsx, disk, out_file, pc, exit_code, combined, cache_df,
          to_fetch, idx, results, attempt, attempt_log, called, loaded, disk0, saves,
          tenacity, waits, sleeps>>

(***************************************************************************)
(* Python values                                                           *)
(***************************************************************************)
NoneObj == "<None>"
NaN == "<NaN>"

\* pd.isna on a scalar
isna(v) == v \in {NoneObj, NaN}

RECURSIVE Join(_)
Join(chunks) ==
    IF chunks = <<>> THEN "" ELSE Head(chunks) \o Join(Tail(chunks))

\* a blank spreadsheet cell, which read_excel gives as NaN
NaNCell == <<>>
cell_isna(c) == c = NaNCell

RECURSIVE lstrip(_)
lstrip(c) == IF c # <<>> /\ Head(c) = " " THEN lstrip(Tail(c)) ELSE c

RECURSIVE rstrip(_)
rstrip(c) ==
    IF c # <<>> /\ c[Len(c)] = " " THEN rstrip(SubSeq(c, 1, Len(c) - 1)) ELSE c

\* str.strip()
strip(c) == rstrip(lstrip(c))

\* str.split(".")[0]
RECURSIVE split_dot_first(_)
split_dot_first(c) ==
    IF c = <<>> \/ Head(c) = "." THEN <<>>
    ELSE <<Head(c)>> \o split_dot_first(Tail(c))

(***************************************************************************)
(* parse_sheet                                                             *)
(***************************************************************************)
SkipCodes == {"dm-Markt", "Gesamt"}

\* faulty variant: the cells are compared without .strip()
row_skipped_unstripped(row) ==
    \/ cell_isna(row.c0)
    \/ Join(row.c0) \in SkipCodes
    \/ cell_isna(row.c3)
    \/ Join(row.c3) = "Strasse"

row_skipped(row) ==
    \/ cell_isna(row.c0)
    \/ Join(strip(row.c0)) \in SkipCodes
    \/ cell_isna(row.c3)
    \/ Join(strip(row.c3)) = "Strasse"

address_string(street_str, plz, city, country_label) ==
    street_str \o ", " \o plz \o " " \o city \o ", " \o country_label

parse_row(row, country_label) ==
    LET plz == IF ~cell_isna(row.c4) THEN Join(split_dot_first(row.c4)) ELSE ""
        city == IF ~cell_isna(row.c5) THEN Join(row.c5) ELSE ""
        code == Join(strip(row.c0))
        street_str == Join(strip(row.c3))
    IN  [dm_code |-> code, Strasse |-> street_str, PLZ |-> plz, Ort |-> city,
         Country |-> country_label,
         address_for_geocoding |-> address_string(street_str, plz, city, country_label)]

RECURSIVE parse_sheet(_, _)
parse_sheet(rows, country_label) ==
    IF rows = <<>> THEN <<>>
    ELSE (IF row_skipped(Head(rows)) THEN <<>>
          ELSE <<parse_row(Head(rows), country_label)>>)
         \o parse_sheet(Tail(rows), country_label)

(***************************************************************************)
(* The lookup cache: a DataFrame is a sequence of rows, the file a sequence *)
(* of CSV lines whose first line is the header.                            *)
(***************************************************************************)
CacheColumns ==
    <<"address_for_geocoding", "latitude", "longitude", "place_id", "geocode_status">>

\* the strings pandas.read_csv reads as missing
NaValues ==
    {"", "#N/A", "#N/A N/A", "#NA", "-1.#IND", "-1.#QNAN", "-NaN", "-nan",
     "1.#IND", "1.#QNAN", "<NA>", "N/A", "NA", "NULL", "NaN", "None", "n/a",
     "nan", "null"}

\* DataFrame.to_csv writes a missing value as the empty field
csv_field(v) == IF isna(v) THEN "" ELSE v

\* read_csv turns a field into a value
parse_field(s) == IF s \in NaValues THEN NaN ELSE s

csv_line(row) ==
    <<csv_field(row.address_for_geocoding), csv_field(row.latitude),
      csv_field(row.longitude), csv_field(row.place_id),
      csv_field(row.geocode_status)>>

read_line(line) ==
    [address_for_geocoding |-> parse_field(line[1]),
     latitude |-> parse_field(line[2]),
     longitude |-> parse_field(line[3]),
     place_id |-> parse_field(line[4]),
     geocode_status |-> parse_field(line[5])]

\* DataFrame.to_csv(path, index=False): header line, then one line per row;
\* the file is rewritten, whatever it held
to_csv(df) == <<CacheColumns>> \o [k \in 1..Len(df) |-> csv_line(df[k])]

\* faulty variant: read without a header line, so the column names come back as a row
read_csv_header_as_row(lines) == [k \in 1..Len(lines) |-> read_line(lines[k])]

\* pd.read_csv(path): the first line names the columns
read_csv(lines) == [k \in 1..(Len(lines) - 1) |-> read_line(lines[k + 1])]

\* faulty variant: keep=False, a query string with several entries loses them all
RECURSIVE drop_all_duplicated(_, _)
drop_all_duplicated(df, whole) ==
    IF df = <<>> THEN <<>>
    ELSE (IF Cardinality({j \in 1..Len(whole) :
                whole[j].address_for_geocoding = Head(df).address_for_geocoding}) > 1
          THEN <<>> ELSE <<Head(df)>>)
         \o drop_all_duplicated(Tail(df), whole)

drop_duplicates_keep_false(df) == drop_all_duplicated(df, df)

\* DataFrame.drop_duplicates(subset=["address_for_geocoding"], keep="last")
RECURSIVE drop_duplicates(_)
drop_duplicates(df) ==
    IF df = <<>> THEN <<>>
    ELSE (IF \E j \in 2..Len(df) :
                df[j].address_for_geocoding = Head(df).address_for_geocoding
          THEN <<>> ELSE <<Head(df)>>)
         \o drop_duplicates(Tail(df))

\* the file save_cache leaves behind
save_cache(df) == [state |-> "csv", lines |-> to_csv(drop_duplicates(df))]

\* load_or_create_cache: the file's rows, or the empty frame when the file
\* is absent or read_csv raises
load_or_create_cache(file) ==
    IF file.state = "csv" THEN read_csv(file.lines) ELSE <<>>

\* pd.concat([cache_df, new_df], ignore_index=True)
concat(df, new_df) == df \o new_df

(***************************************************************************)
(* DataFrame.merge(cache_df, on="address_for_geocoding", how="left")       *)
(***************************************************************************)
join_row(l, r) ==
    [dm_code |-> l.dm_code, Strasse |-> l.Strasse, PLZ |-> l.PLZ, Ort |-> l.Ort,
     Country |-> l.Country, address_for_geocoding |-> l.address_for_geocoding,
     latitude |-> r.latitude, longitude |-> r.longitude,
     place_id |-> r.place_id, geocode_status |-> r.geocode_status]

\* the cache columns of a left row that matches nothing
NoMatch ==
    [latitude |-> NaN, longitude |-> NaN, place_id |-> NaN, geocode_status |-> NaN]

\* faulty variant: how="inner", a left row that matches nothing is dropped
RECURSIVE merge_inner(_, _)
merge_inner(left, right) ==
    IF left = <<>> THEN <<>>
    ELSE LET l == Head(left)
             Match(r) == r.address_for_geocoding = l.address_for_geocoding
             m == SelectSeq(right, Match)
         IN  [k \in 1..Len(m) |-> join_row(l, m[k])] \o merge_inner(Tail(left), right)

RECURSIVE merge_left(_, _)
merge_left(left, right) ==
    IF left = <<>> THEN <<>>
    ELSE LET l == Head(left)
             Match(r) == r.address_for_geocoding = l.address_for_geocoding
             m == SelectSeq(right, Match)
         IN  (IF m = <<>> THEN <<join_row(l, NoMatch)>>
              ELSE [k \in 1..Len(m) |-> join_row(l, m[k])])
             \o merge_left(Tail(left), right)

\* faulty variant: a row counts as missing only when the cache has no entry for it
status_isna(row) == isna(row.geocode_status)

\* merged["latitude"].isna()
latitude_isna(row) == isna(row.latitude)

\* faulty variant: the filter on the latitude is left out
fetch_all_rows(merged) == merged

\* merged[merged["latitude"].isna()]
rows_to_fetch(merged) == SelectSeq(merged, latitude_isna)

(***************************************************************************)
(* geocode_one and the provider                                            *)
(***************************************************************************)
MaxAttempts == 6

RateLimitMarkers == {"OVER_QUERY_LIMIT", "OVER_DAILY_LIMIT"}

\* "OVER_QUERY_LIMIT" in str(e) or "OVER_DAILY_LIMIT" in str(e)
is_rate_limit(msg) == \E k \in 1..Len(msg) : msg[k] \in RateLimitMarkers

\* One attempt of geocode_one on what gmaps_client.geocode did (o.kind is
\* "return" with o.results, or "raise" with the message o.msg):
\* "data" (a dict), "none", "ratelimit" (RateLimitError) or "error".
geocode_attempt(o) ==
    IF o.kind = "raise"
    THEN [tag |-> IF is_rate_limit(o.msg) THEN "ratelimit" ELSE "error",
          data |-> <<>>, msg |-> Join(o.msg)]
    ELSE IF o.results = <<>>
    THEN [tag |-> "none", data |-> <<>>, msg |-> ""]
    ELSE [tag |-> "data", data |-> <<o.results[1]>>, msg |-> ""]

\* What gmaps_client.geocode did, as the attempt history records it: it
\* returned results ("results") or none ("empty"), or raised with a quota
\* marker in the message ("quota") or without one ("failure").
outcome_class(o) ==
    IF o.kind = "return"
    THEN (IF o.results = <<>> THEN "empty" ELSE "results")
    ELSE IF \E k \in 1..Len(o.msg) : o.msg[k] \in RateLimitMarkers
    THEN "quota" ELSE "failure"

\* wait_exponential(multiplier=1, min=2, max=60)
WaitMultiplier == 1
WaitMin == 2
WaitMax == 60

Max2(a, b) == IF a >= b THEN a ELSE b
Min2(a, b) == IF a <= b THEN a ELSE b

\* The exponent tenacity starts the curve with.  tenacity 8 computes
\* exp_base ** (attempt_number - 1); releases before that computed
\* 2 ** attempt_number.  The script does not pin the release.
TenacityBuilds == {0, 1}

\* faulty variant: the lower limit min=2 is left out
wait_without_min(attempt_number, offset) ==
    Max2(0, Min2(WaitMultiplier * 2 ^ (attempt_number - offset), WaitMax))

\* tenacity's wait_exponential.__call__ after attempt attempt_number:
\* max(max(0, min), min(multiplier * exp, max))
wait_exponential(attempt_number, offset) ==
    Max2(Max2(0, WaitMin),
         Min2(WaitMultiplier * 2 ^ (attempt_number - offset), WaitMax))

\* faulty variant: one attempt more than the budget
stop_after_seventh(n) == n >= MaxAttempts + 1

\* stop_after_attempt(6): no further attempt after the 6th
stop_after_attempt(n) == n >= MaxAttempts

\* faulty variant: the zero-result row is written as a resolved one
not_found_as_ok(addr) ==
    [address_for_geocoding |-> addr, latitude |-> NoneObj, longitude |-> NoneObj,
     place_id |-> NoneObj, geocode_status |-> "OK"]

\* faulty variant: the failure detail is dropped and the row reads as a zero result
error_as_not_found(addr, msg) ==
    [address_for_geocoding |-> addr, latitude |-> NoneObj, longitude |-> NoneObj,
     place_id |-> NoneObj, geocode_status |-> "NOT_FOUND"]

ok_row(addr, data) ==
    [address_for_geocoding |-> addr, latitude |-> data.latitude,
     longitude |-> data.longitude, place_id |-> data.place_id,
     geocode_status |-> "OK"]

not_found_row(addr) ==
    [address_for_geocoding |-> addr, latitude |-> NoneObj, longitude |-> NoneObj,
     place_id |-> NoneObj, geocode_status |-> "NOT_FOUND"]

error_row(addr, msg) ==
    [address_for_geocoding |-> addr, latitude |-> NoneObj, longitude |-> NoneObj,
     place_id |-> NoneObj, geocode_status |-> "ERROR: " \o msg]

(***************************************************************************)
(* The output workbook                                                     *)
(***************************************************************************)
\* final.rename(columns={"longitude": ..., "latitude": ...})
rename_columns(row) ==
    [dm_code |-> row.dm_code, Strasse |-> row.Strasse, PLZ |-> row.PLZ,
     Ort |-> row.Ort, Country |-> row.Country,
     address_for_geocoding |-> row.address_for_geocoding,
     szerokosc |-> row.latitude, dlugosc |-> row.longitude,
     place_id |-> row.place_id, geocode_status |-> row.geocode_status]

\* final[final["Country"] == country]
country_rows(final, country) ==
    LET InCountry(row) == row.Country = country
    IN  SelectSeq(final, InCountry)

output_workbook(records, cache) ==
    LET merged == merge_left(records, cache)
        final == [k \in 1..Len(merged) |-> rename_columns(merged[k])]
    IN  [written |-> TRUE,
         de |-> country_rows(final, "Germany"),
         at |-> country_rows(final, "Austria")]

NoOutput == [written |-> FALSE, de |-> <<>>, at |-> <<>>]

(***************************************************************************)
(* Inputs: the environment's credential, the workbooks, what the provider  *)
(* answers to one call.                                                    *)
(***************************************************************************)
ApiKeys == {NoneObj, "", "AIzaKey"}

\* faulty variant: `api_key is None`, the empty string passes
key_is_none(k) == k = NoneObj

\* `not api_key`
key_missing(k) == k = NoneObj \/ k = ""

RowHeader ==
    [c0 |-> <<"dm-Markt">>, c3 |-> <<"Strasse">>, c4 |-> <<"PLZ">>, c5 |-> <<"Ort">>]
RowGesamt ==
    [c0 |-> <<"Gesamt", " ">>, c3 |-> NaNCell, c4 |-> NaNCell, c5 |-> NaNCell]
RowBlank ==
    [c0 |-> NaNCell, c3 |-> <<"Kaiserstr 3">>, c4 |-> <<"76133">>, c5 |-> <<"Karlsruhe">>]
RowNoStreet ==
    [c0 |-> <<"1004">>, c3 |-> NaNCell, c4 |-> <<"76133">>, c5 |-> <<"Karlsruhe">>]
RowA ==
    [c0 |-> <<"1001">>, c3 |-> <<"Marktplatz 1">>, c4 |-> <<"76133", ".", "0">>,
     c5 |-> <<"Karlsruhe">>]
\* the address of RowA under another code, padded and with a textual postcode
RowA2 ==
    [c0 |-> <<" ", "1002">>, c3 |-> <<"Marktplatz 1", " ">>, c4 |-> <<"76133">>,
     c5 |-> <<"Karlsruhe">>]
RowB ==
    [c0 |-> <<"2001">>, c3 |-> <<"Ring 5">>, c4 |-> <<"1010", ".", "0">>, c5 |-> <<"Wien">>]
RowC ==
    [c0 |-> <<"1005">>, c3 |-> <<"Kaiserstr 3">>, c4 |-> NaNCell, c5 |-> <<"Karlsruhe">>]

Workbooks ==
    { [de |-> <<RowHeader, RowGesamt>>, at |-> <<RowHeader>>],
      [de |-> <<RowHeader, RowA, RowGesamt>>, at |-> <<RowBlank>>],
      [de |-> <<RowA, RowNoStreet>>, at |-> <<RowHeader, RowB>>],
      [de |-> <<RowA, RowA2>>, at |-> <<>>],
      [de |-> <<RowC, RowA>>, at |-> <<RowB, RowGesamt>>] }

\* the entries of a geocoding response
Place1 == [latitude |-> "49.0094", longitude |-> "8.4044", place_id |-> "ChIJ-1"]
Place2 == [latitude |-> "48.2082", longitude |-> "16.3738", place_id |-> "ChIJ-2"]
\* a location without "lat"/"lng": loc.get gives None
PlaceNoLoc == [latitude |-> NoneObj, longitude |-> NoneObj, place_id |-> "ChIJ-3"]

ProviderOutcomes ==
    { [kind |-> "return", results |-> <<Place1, Place2>>, msg |-> <<>>],
      [kind |-> "return", results |-> <<PlaceNoLoc>>, msg |-> <<>>],
      [kind |-> "return", results |-> <<>>, msg |-> <<>>],
      [kind |-> "raise", results |-> <<>>, msg |-> <<"OVER_QUERY_LIMIT">>],
      [kind |-> "raise", results |-> <<>>,
       msg |-> <<"You have exceeded your daily request quota: ", "OVER_DAILY_LIMIT">>],
      [kind |-> "raise", results |-> <<>>, msg |-> <<"REQUEST_DENIED">>] }

(***************************************************************************)
(* main()                                                                  *)
(***************************************************************************)
NoFile == [state |-> "absent", lines |-> <<>>]
CorruptFile == [state |-> "corrupt", lines |-> <<>>]

Init ==
    /\ api_key \in ApiKeys
    /\ xlsx \in Workbooks
    /\ disk \in {NoFile, CorruptFile}
    /\ out_file = NoOutput
    /\ pc = "start"
    /\ exit_code = -1
    /\ combined = <<>>
    /\ cache_df = <<>>
    /\ to_fetch = <<>>
    /\ idx = 0
    /\ results = <<>>
    /\ attempt = 0
    /\ attempt_log = <<>>
    /\ called = <<>>
    /\ loaded = <<>>
    /\ disk0 = disk
    /\ saves = 0
    /\ tenacity \in TenacityBuilds
    /\ waits = <<>>
    /\ sleeps = 0

\* lines 101-104: the credential, or exit 2
CheckCredential ==
    /\ pc = "start"
    /\ IF key_missing(api_key)
       THEN pc' = "exit" /\ exit_code' = 2
       ELSE pc' = "extract" /\ exit_code' = exit_code
    /\ UNCHANGED <<api_key, xlsx, disk, out_file, combined, cache_df, to_fetch, idx,
                   results, attempt, attempt_log, called, loaded, disk0, saves>>
    /\ UNCHANGED <<tenacity, waits, sleeps>>

\* lines 108-110: both sheets, concatenated
Extract ==
    /\ pc = "extract"
    /\ combined' = concat(parse_sheet(xlsx.de, "Germany"), parse_sheet(xlsx.at, "Austria"))
    /\ pc' = "load"
    /\ UNCHANGED <<api_key, xlsx, disk, out_file, exit_code, cache_df, to_fetch, idx,
                   results, attempt, attempt_log, called, loaded, disk0, saves>>
    /\ UNCHANGED <<tenacity, waits, sleeps>>

\* line 112
LoadCache ==
    /\ pc = "load"
    /\ cache_df' = load_or_create_cache(disk)
    /\ loaded' = load_or_create_cache(disk)
    /\ pc' = "partition"
    /\ UNCHANGED <<api_key, xlsx, disk, out_file, exit_code, combined, to_fetch, idx,
                   results, attempt, attempt_log, called, disk0, saves>>
    /\ UNCHANGED <<tenacity, waits, sleeps>>

\* lines 113-116 when no row was extracted: both parse_sheet frames have no
\* columns, the merge raises KeyError and the interpreter exits with status 1
PartitionNoRecords ==
    /\ pc = "partition"
    /\ combined = <<>>
    /\ pc' = "exit"
    /\ exit_code' = 1
    /\ UNCHANGED <<api_key, xlsx, disk, out_file, combined, cache_df, to_fetch, idx,
                   results, attempt, attempt_log, called, loaded, disk0, saves>>
    /\ UNCHANGED <<tenacity, waits, sleeps>>

\* lines 113-116: the rows without a latitude are the ones to fetch
Partition ==
    /\ pc = "partition"
    /\ combined # <<>>
    /\ to_fetch' = rows_to_fetch(merge_left(combined, cache_df))
    /\ results' = <<>>
    /\ idx' = 1
    /\ pc' = "loop"
    /\ UNCHANGED <<api_key, xlsx, disk, out_file, exit_code, combined, cache_df,
                   attempt, attempt_log, called, loaded, disk0, saves>>
    /\ UNCHANGED <<tenacity, waits, sleeps>>

\* row["address_for_geocoding"] of the row the loop is at
addr == to_fetch[idx].address_for_geocoding

\* lines 117-118: the next row to fetch; geocode_one is entered
BeginFetch ==
    /\ pc = "loop"
    /\ idx <= Len(to_fetch)
    /\ attempt' = 0
    /\ attempt_log' = <<>>
    /\ called' = Append(called, addr)
    /\ pc' = "call"
    /\ UNCHANGED <<api_key, xlsx, disk, out_file, exit_code, combined, cache_df,
                   to_fetch, idx, results, loaded, disk0, saves>>
    /\ waits' = <<>>
    /\ UNCHANGED <<tenacity, sleeps>>

\* one attempt of the current geocode_one call, ending with `tag`
Attempted(o, tag) ==
    /\ pc = "call"
    /\ geocode_attempt(o).tag = tag
    /\ attempt' = attempt + 1
    /\ attempt_log' = Append(attempt_log, outcome_class(o))

\* faulty variant: the loop goes to the next row without time.sleep
FetchOkNoDelay ==
    \E o \in ProviderOutcomes :
        /\ Attempted(o, "data")
        /\ results' = Append(results, ok_row(addr, geocode_attempt(o).data[1]))
        /\ pc' = "loop"
        /\ idx' = idx + 1
        /\ UNCHANGED <<api_key, xlsx, disk, out_file, exit_code, combined, cache_df,
                       to_fetch, called, loaded, disk0, saves>>
        /\ UNCHANGED <<tenacity, waits, sleeps>>

\* lines 120, 129-136: a first result; an OK row
FetchOk ==
    \E o \in ProviderOutcomes :
        /\ Attempted(o, "data")
        /\ results' = Append(results, ok_row(addr, geocode_attempt(o).data[1]))
        /\ pc' = "sleep"
        /\ UNCHANGED <<api_key, xlsx, disk, out_file, exit_code, combined, cache_df,
                       to_fetch, idx, called, loaded, disk0, saves>>
        /\ UNCHANGED <<tenacity, waits, sleeps>>

\* lines 120-128: no result; a NOT_FOUND row
FetchNotFound ==
    \E o \in ProviderOutcomes :
        /\ Attempted(o, "none")
        /\ results' = Append(results, not_found_row(addr))
        /\ pc' = "sleep"
        /\ UNCHANGED <<api_key, xlsx, disk, out_file, exit_code, combined, cache_df,
                       to_fetch, idx, called, loaded, disk0, saves>>
        /\ UNCHANGED <<tenacity, waits, sleeps>>

\* lines 144-151: any other exception leaves geocode_one at once; an ERROR row
FetchError ==
    \E o \in ProviderOutcomes :
        /\ Attempted(o, "error")
        /\ results' = Append(results, error_row(addr, geocode_attempt(o).msg))
        /\ pc' = "sleep"
        /\ UNCHANGED <<api_key, xlsx, disk, out_file, exit_code, combined, cache_df,
                       to_fetch, idx, called, loaded, disk0, saves>>
        /\ UNCHANGED <<tenacity, waits, sleeps>>

\* lines 65-70, 75-76: RateLimitError before the last attempt; tenacity waits
FetchRateLimited ==
    \E o \in ProviderOutcomes :
        /\ Attempted(o, "ratelimit")
        /\ ~stop_after_attempt(attempt + 1)
        /\ pc' = "wait"
        /\ UNCHANGED <<api_key, xlsx, disk, out_file, exit_code, combined, cache_df,
                       to_fetch, idx, results, called, loaded, disk0, saves>>
        /\ UNCHANGED <<tenacity, waits, sleeps>>

\* wait_exponential elapsed; the next attempt
BackoffWait ==
    /\ pc = "wait"
    /\ pc' = "call"
    /\ UNCHANGED <<api_key, xlsx, disk, out_file, exit_code, combined, cache_df,
                   to_fetch, idx, results, attempt, attempt_log, called, loaded,
                   disk0, saves>>
    /\ waits' = Append(waits, wait_exponential(attempt, tenacity))
    /\ UNCHANGED <<tenacity, sleeps>>

\* faulty variant: the new rows are merged in memory but the file is not rewritten
file_not_saved(file, df, new_rows) == file

\* faulty variant: only the rows of this run are written
file_of_new_rows_only(file, df, new_rows) ==
    IF new_rows # <<>> THEN save_cache(new_rows) ELSE file

\* lines 138-141 and 154-157: `if results:` concat and save
flushed_cache(df, new_rows) == IF new_rows # <<>> THEN concat(df, new_rows) ELSE df
flushed_file(file, df, new_rows) ==
    IF new_rows # <<>> THEN save_cache(concat(df, new_rows)) ELSE file
flush_count(n, new_rows) == IF new_rows # <<>> THEN n + 1 ELSE n

\* faulty variant: sys.exit(3) is left out, the loop goes on after the save
RateLimitAbortFallsThrough ==
    \E o \in ProviderOutcomes :
        /\ Attempted(o, "ratelimit")
        /\ stop_after_attempt(attempt + 1)
        /\ cache_df' = flushed_cache(cache_df, results)
        /\ disk' = flushed_file(disk, cache_df, results)
        /\ saves' = flush_count(saves, results)
        /\ pc' = "sleep"
        /\ UNCHANGED <<api_key, xlsx, out_file, exit_code, combined, to_fetch, idx,
                       results, called, loaded, disk0, tenacity, waits, sleeps>>

\* lines 137-143: RateLimitError on the last attempt is re-raised to main,
\* which saves what it has and exits with 3
RateLimitAbort ==
    \E o \in ProviderOutcomes :
        /\ Attempted(o, "ratelimit")
        /\ stop_after_attempt(attempt + 1)
        /\ cache_df' = flushed_cache(cache_df, results)
        /\ disk' = flushed_file(disk, cache_df, results)
        /\ saves' = flush_count(saves, results)
        /\ pc' = "exit"
        /\ exit_code' = 3
        /\ UNCHANGED <<api_key, xlsx, out_file, combined, to_fetch, idx, results,
                       called, loaded, disk0>>
        /\ UNCHANGED <<tenacity, waits, sleeps>>

\* line 152: time.sleep(args.sleep), then the next row
Sleep ==
    /\ pc = "sleep"
    /\ idx' = idx + 1
    /\ attempt' = 0
    /\ attempt_log' = <<>>
    /\ pc' = "loop"
    /\ UNCHANGED <<api_key, xlsx, disk, out_file, exit_code, combined, cache_df,
                   to_fetch, results, called, loaded, disk0, saves>>
    /\ sleeps' = sleeps + 1 /\ waits' = <<>>
    /\ UNCHANGED <<tenacity>>

\* lines 154-157: the loop is over; the new rows go into the cache and the file
Flush ==
    /\ pc = "loop"
    /\ idx > Len(to_fetch)
    /\ cache_df' = flushed_cache(cache_df, results)
    /\ disk' = flushed_file(disk, cache_df, results)
    /\ saves' = flush_count(saves, results)
    /\ pc' = "output"
    /\ UNCHANGED <<api_key, xlsx, out_file, exit_code, combined, to_fetch, idx,
                   results, attempt, attempt_log, called, loaded, disk0>>
    /\ UNCHANGED <<tenacity, waits, sleeps>>

\* lines 159-170: the join is written; the run ends with 0
WriteOutput ==
    /\ pc = "output"
    /\ out_file' = output_workbook(combined, cache_df)
    /\ pc' = "exit"
    /\ exit_code' = 0
    /\ UNCHANGED <<api_key, xlsx, disk, combined, cache_df, to_fetch, idx, results,
                   attempt, attempt_log, called, loaded, disk0, saves>>
    /\ UNCHANGED <<tenacity, waits, sleeps>>

\* The operator starts the script again: any credential, any workbook, the
\* cache file as the last run left it, the output of the last run moved away.
NextRun ==
    /\ pc = "exit"
    /\ api_key' \in ApiKeys
    /\ xlsx' \in Workbooks
    /\ out_file' = NoOutput
    /\ pc' = "start"
    /\ exit_code' = -1
    /\ combined' = <<>>
    /\ cache_df' = <<>>
    /\ to_fetch' = <<>>
    /\ idx' = 0
    /\ results' = <<>>
    /\ attempt' = 0
    /\ attempt_log' = <<>>
    /\ called' = <<>>
    /\ loaded' = <<>>
    /\ disk0' = disk
    /\ saves' = 0
    /\ UNCHANGED disk
    /\ waits' = <<>> /\ sleeps' = 0
    /\ UNCHANGED <<tenacity>>

Next ==
    \/ CheckCredential
    \/ Extract
    \/ LoadCache
    \/ PartitionNoRecords
    \/ Partition
    \/ BeginFetch
    \/ FetchOk
    \/ FetchNotFound
    \/ FetchError
    \/ FetchRateLimited
    \/ BackoffWait
    \/ RateLimitAbort
    \/ Sleep
    \/ Flush
    \/ WriteOutput
    \/ NextRun

Spec == Init /\ [][Next]_vars

(***************************************************************************)
(* Vocabulary of the properties                                            *)
(***************************************************************************)
Last(seq) == seq[Len(seq)]

\* the loaded cache resolves query string a
CachedWithCoordinates(a) ==
    \E j \in 1..Len(loaded) :
        loaded[j].address_for_geocoding = a /\ ~isna(loaded[j].latitude)

\* geocode_one was invoked for query string a in this run
Fetched(a) == \E c \in 1..Len(called) : called[c] = a

\* the statuses main() can give a failed lookup
ErrorStatuses ==
    { "ERROR: " \o Join(o.msg) :
        o \in {x \in ProviderOutcomes : outcome_class(x) = "failure"} }

\* the position of the last entry for query string q in a frame that has one
LastIndex(df, q) ==
    CHOOSE k \in 1..Len(df) :
        /\ df[k].address_for_geocoding = q
        /\ \A j \in (k + 1)..Len(df) : df[j].address_for_geocoding # q

\* the data lines of the cache file that carry query string q
FileLinesFor(q) == {n \in 2..Len(disk.lines) : disk.lines[n][1] = q}

AllQuota(log) == \A k \in 1..Len(log) : log[k] = "quota"

(***************************************************************************)
(* C1: a record whose query string has an entry with a latitude in the     *)
(* cache loaded at the start of the run is never sent to the provider in   *)
(* that run.                                                               *)
(***************************************************************************)
C1_CacheHitSuppressesFetch ==
    \A k \in 1..Len(combined) :
        CachedWithCoordinates(combined[k].address_for_geocoding)
            => ~Fetched(combined[k].address_for_geocoding)

\* a finished run that had a cache hit beside a record it had to fetch
C1_Witness ==
    /\ pc = "exit" /\ exit_code = 0
    /\ called # <<>>
    /\ \E k \in 1..Len(combined) :
          CachedWithCoordinates(combined[k].address_for_geocoding)

(***************************************************************************)
(* C2 as stated: when the run ends with exit code 3 the sixth attempt has  *)
(* been made, no later miss was fetched, and the cache file holds every    *)
(* entry loaded at the start and every entry produced for the earlier      *)
(* misses.                                                                 *)
(***************************************************************************)
C2_EveryEntryOnDisk ==
    (pc = "exit" /\ exit_code = 3) =>
        /\ attempt = MaxAttempts
        /\ Len(called) = idx
        /\ \A k \in 1..Len(loaded) :
              disk.state = "csv"
              /\ \E n \in 2..Len(disk.lines) : disk.lines[n] = csv_line(loaded[k])
        /\ \A k \in 1..Len(results) :
              disk.state = "csv"
              /\ \E n \in 2..Len(disk.lines) : disk.lines[n] = csv_line(results[k])

(***************************************************************************)
(* C2 amended: six quota answers in a row for one miss end the run with    *)
(* exit code 3 and nothing else does; no later miss is fetched; for every  *)
(* query string that has an entry loaded at the start or produced for an   *)
(* earlier miss the file holds exactly one line, the most recent of these  *)
(* entries; with nothing produced the file is left as it was.              *)
(***************************************************************************)
C2_AbortKeepsLatestEntries ==
    /\ (Len(attempt_log) = MaxAttempts /\ AllQuota(attempt_log))
          => (pc = "exit" /\ exit_code = 3)
    /\ (pc = "exit" /\ exit_code = 3) =>
          /\ attempt = MaxAttempts
          /\ Len(attempt_log) = MaxAttempts /\ AllQuota(attempt_log)
          /\ Len(called) = idx /\ called[idx] = addr
          /\ Len(results) = idx - 1
          /\ results = <<>> => disk = disk0
          /\ LET all == loaded \o results
             IN  \A k \in 1..Len(all) :
                    LET q == all[k].address_for_geocoding
                    IN  /\ disk.state = "csv"
                        /\ Cardinality(FileLinesFor(q)) = 1
                        /\ \A n \in FileLinesFor(q) :
                              disk.lines[n] = csv_line(all[LastIndex(all, q)])

\* an abort after a loaded entry was superseded by an entry of this run
C2_Witness ==
    /\ pc = "exit" /\ exit_code = 3
    /\ \E k \in 1..Len(results) : \E j \in 1..Len(loaded) :
          /\ loaded[j].address_for_geocoding = results[k].address_for_geocoding
          /\ csv_line(loaded[j]) # csv_line(results[k])

(***************************************************************************)
(* C3: one geocode_one call makes at most 6 attempts; every attempt but    *)
(* the last got a quota answer; a quota answer before the 6th attempt is   *)
(* followed by a wait and another attempt, on the 6th it ends the run with *)
(* exit code 3; any other failure, a result or an empty answer ends the    *)
(* call at that attempt.                                                   *)
(***************************************************************************)
C3_BoundedRetry ==
    /\ attempt = Len(attempt_log)
    /\ attempt <= MaxAttempts
    /\ \A k \in 1..(Len(attempt_log) - 1) : attempt_log[k] = "quota"
    /\ attempt_log # <<>> =>
          /\ (Last(attempt_log) = "quota" /\ attempt < MaxAttempts)
                => (pc \in {"wait", "call"} /\ exit_code = -1)
          /\ (Last(attempt_log) = "quota" /\ attempt = MaxAttempts)
                => (pc = "exit" /\ exit_code = 3)
          /\ Last(attempt_log) \in {"failure", "results", "empty"}
                => (pc = "sleep" /\ exit_code = -1 /\ Len(results) = idx)

\* the sixth attempt of a call succeeds after five quota answers
C3_Witness ==
    /\ Len(attempt_log) = MaxAttempts
    /\ Last(attempt_log) = "results"
    /\ pc = "sleep"

(***************************************************************************)
(* C4: after a provider failure without a quota marker the run goes on:    *)
(* the one row appended for that address has null latitude, longitude and  *)
(* place_id and an "ERROR: detail" status, and the next step moves the     *)
(* loop to the next row without an exit code.                              *)
(***************************************************************************)
C4_ErrorDoesNotAbort ==
    [][ (attempt_log # <<>> /\ Last(attempt_log) = "failure") =>
            /\ pc = "sleep" /\ exit_code = -1
            /\ Len(results) = idx
            /\ results[idx].address_for_geocoding = addr
            /\ isna(results[idx].latitude) /\ isna(results[idx].longitude)
            /\ isna(results[idx].place_id)
            /\ results[idx].geocode_status \in ErrorStatuses
            /\ pc' = "loop" /\ idx' = idx + 1 /\ exit_code' = -1
            /\ results' = results ]_vars

\* a run that ends with 0 although an earlier miss failed
C4_Witness ==
    /\ pc = "exit" /\ exit_code = 0
    /\ Len(results) >= 2
    /\ results[1].geocode_status \in ErrorStatuses

(***************************************************************************)
(* C5: after an empty answer of the provider the row appended for that     *)
(* address has status NOT_FOUND and null latitude, longitude and place_id, *)
(* and the next step moves the loop to the next row without an exit code.  *)
(***************************************************************************)
C5_ZeroResultsNotFound ==
    [][ (attempt_log # <<>> /\ Last(attempt_log) = "empty") =>
            /\ pc = "sleep" /\ exit_code = -1
            /\ Len(results) = idx
            /\ results[idx].address_for_geocoding = addr
            /\ results[idx].geocode_status = "NOT_FOUND"
            /\ isna(results[idx].latitude) /\ isna(results[idx].longitude)
            /\ isna(results[idx].place_id)
            /\ pc' = "loop" /\ idx' = idx + 1 /\ exit_code' = -1
            /\ results' = results ]_vars

\* the fetch of the next row has begun after a NOT_FOUND row was recorded
C5_Witness ==
    /\ pc = "call"
    /\ idx >= 2
    /\ results[idx - 1].geocode_status = "NOT_FOUND"

(***************************************************************************)
(* More vocabulary: what the cache file held when the run started          *)
(***************************************************************************)
\* GOOGLE_MAPS_API_KEY is unset or set to the empty string
key_missing_env == api_key \in {NoneObj, ""}

Partitioned ==
    \/ pc \in {"loop", "call", "wait", "sleep", "output"}
    \/ pc = "exit" /\ exit_code \in {0, 3}

LoopOver == pc = "output" \/ (pc = "exit" /\ exit_code = 0)

InToFetch(a) == \E k \in 1..Len(to_fetch) : to_fetch[k].address_for_geocoding = a

\* the file of the run's start has a NOT_FOUND or ERROR line for a
FailedPersisted(a) ==
    \E n \in 2..Len(disk0.lines) :
        /\ disk0.lines[n][1] = a
        /\ disk0.lines[n][5] \in {"NOT_FOUND"} \cup ErrorStatuses
        /\ disk0.lines[n][2] = ""

\* the file of the run's start has an OK line with coordinates for a
ResolvedPersisted(a) ==
    \E n \in 2..Len(disk0.lines) :
        /\ disk0.lines[n][1] = a
        /\ disk0.lines[n][5] = "OK"
        /\ disk0.lines[n][2] # ""

NoEntryLoaded(a) == \A j \in 1..Len(loaded) : loaded[j].address_for_geocoding # a

NullEntryLoaded(a) ==
    \E j \in 1..Len(loaded) :
        loaded[j].address_for_geocoding = a /\ isna(loaded[j].latitude)

UniqueKeys(df) ==
    \A j, k \in 1..Len(df) :
        df[j].address_for_geocoding = df[k].address_for_geocoding => j = k

(***************************************************************************)
(* C6: a record whose query string has a persisted NOT_FOUND or ERROR      *)
(* entry is put among the rows to fetch in every run that gets to the      *)
(* partition and has been fetched when the loop is over; a record whose    *)
(* query string has a persisted OK entry with coordinates is not fetched.  *)
(***************************************************************************)
C6_FailedLookupsRetried ==
    Partitioned =>
        \A k \in 1..Len(combined) :
            LET a == combined[k].address_for_geocoding
            IN  /\ FailedPersisted(a) => (InToFetch(a) /\ (LoopOver => Fetched(a)))
                /\ ResolvedPersisted(a) => (~InToFetch(a) /\ ~Fetched(a))

\* a run that fetched a failed entry again and resolved it this time
C6_Witness ==
    /\ pc = "exit" /\ exit_code = 0
    /\ \E k \in 1..Len(results) :
          /\ FailedPersisted(results[k].address_for_geocoding)
          /\ results[k].geocode_status = "OK"
          /\ ~isna(results[k].latitude)

(***************************************************************************)
(* C7 as stated: only query strings without any entry in the loaded cache  *)
(* are among the rows to fetch and are sent to the provider.               *)
(***************************************************************************)
C7_OnlyAbsentEntriesFetched ==
    Partitioned =>
        /\ \A k \in 1..Len(to_fetch) :
              NoEntryLoaded(to_fetch[k].address_for_geocoding)
        /\ \A c \in 1..Len(called) : NoEntryLoaded(called[c])

(***************************************************************************)
(* C7 amended: a record is among the rows to fetch exactly when the loaded *)
(* cache has no entry for its query string or an entry with a null         *)
(* latitude (so a NOT_FOUND or ERROR entry is fetched again); the rows to  *)
(* fetch are these records in input order, and the provider is called for  *)
(* them only, in that order.                                               *)
(***************************************************************************)
C7_MissIsAbsentOrNullLatitude ==
    Partitioned =>
        LET Miss(r) == \/ NoEntryLoaded(r.address_for_geocoding)
                       \/ NullEntryLoaded(r.address_for_geocoding)
            misses == SelectSeq(combined, Miss)
        IN  /\ Len(to_fetch) = Len(misses)
            /\ \A k \in 1..Len(misses) :
                  to_fetch[k].address_for_geocoding = misses[k].address_for_geocoding
                  /\ to_fetch[k].dm_code = misses[k].dm_code
            /\ Len(called) <= Len(to_fetch)
            /\ \A c \in 1..Len(called) : called[c] = to_fetch[c].address_for_geocoding

\* the provider is being called for a query string whose loaded entry is NOT_FOUND
C7_Witness ==
    /\ pc = "call"
    /\ \E j \in 1..Len(loaded) :
          /\ loaded[j].address_for_geocoding = addr
          /\ loaded[j].geocode_status = "NOT_FOUND"

(***************************************************************************)
(* C8: in every state of a run the driver's cache frame and the cache file *)
(* hold at most one entry per query string.                                *)
(***************************************************************************)
C8_OneEntryPerQueryString ==
    /\ UniqueKeys(cache_df)
    /\ UniqueKeys(load_or_create_cache(disk))

(***************************************************************************)
(* C10: with the credential absent or empty the run does nothing but end   *)
(* with exit code 2: nothing is extracted, the cache is not loaded and the *)
(* file not written, the provider is not called, no output is written.     *)
(***************************************************************************)
C10_MissingCredentialExitsFirst ==
    /\ key_missing_env =>
          /\ pc \in {"start", "exit"}
          /\ pc = "exit" => exit_code = 2
          /\ combined = <<>> /\ cache_df = <<>> /\ loaded = <<>>
          /\ to_fetch = <<>> /\ results = <<>>
          /\ called = <<>> /\ attempt = 0
          /\ disk = disk0 /\ saves = 0
          /\ out_file = NoOutput
    /\ (pc = "exit" /\ exit_code = 2) => key_missing_env

\* an empty credential ended the run while a cache file of an earlier run exists
C10_Witness ==
    /\ pc = "exit" /\ exit_code = 2
    /\ api_key = ""
    /\ disk.state = "csv"

(***************************************************************************)
(* The cache operations on their own: any frame that main() can build from *)
(* result rows is saved, loaded and extended in any order.  `called` is    *)
(* the history of saves and loads since the last new entry, disk0 the file *)
(* as the first save since then left it.                                   *)
(***************************************************************************)
MaxCacheRows == 3
MaxCacheOps == 3

CacheAddresses ==
    { "Marktplatz 1, 76133 Karlsruhe, Germany", "Ring 5, 1010 Wien, Austria" }

\* the rows main() appends to results
ResultRows ==
    UNION { { ok_row(a, Place1), ok_row(a, PlaceNoLoc), not_found_row(a),
              error_row(a, "REQUEST_DENIED") } : a \in CacheAddresses }

FramesUpTo(n) == UNION { [1..m -> ResultRows] : m \in 0..n }

InitCache ==
    /\ cache_df \in FramesUpTo(MaxCacheRows - 1)
    /\ disk \in {NoFile, CorruptFile}
    /\ disk0 = disk
    /\ called = <<>>
    /\ pc = "cache"
    /\ api_key = "AIzaKey"
    /\ xlsx = [de |-> <<>>, at |-> <<>>]
    /\ out_file = NoOutput
    /\ exit_code = -1
    /\ combined = <<>>
    /\ to_fetch = <<>>
    /\ idx = 0
    /\ results = <<>>
    /\ attempt = 0
    /\ attempt_log = <<>>
    /\ loaded = <<>>
    /\ saves = 0
    /\ tenacity = 1
    /\ waits = <<>>
    /\ sleeps = 0

\* save_cache(cache_df, cache_path)
CacheSave ==
    /\ pc = "cache"
    /\ Len(called) < MaxCacheOps
    /\ disk' = save_cache(cache_df)
    /\ disk0' = IF saves = 0 THEN save_cache(cache_df) ELSE disk0
    /\ saves' = saves + 1
    /\ called' = Append(called, "save")
    /\ UNCHANGED <<api_key, xlsx, out_file, pc, exit_code, combined, cache_df,
                   to_fetch, idx, results, attempt, attempt_log, loaded>>
    /\ UNCHANGED <<tenacity, waits, sleeps>>

\* cache_df = load_or_create_cache(cache_path)
CacheLoad ==
    /\ pc = "cache"
    /\ Len(called) < MaxCacheOps
    /\ cache_df' = load_or_create_cache(disk)
    /\ called' = Append(called, "load")
    /\ UNCHANGED <<api_key, xlsx, disk, out_file, pc, exit_code, combined,
                   to_fetch, idx, results, attempt, attempt_log, loaded, disk0, saves>>
    /\ UNCHANGED <<tenacity, waits, sleeps>>

\* cache_df = pd.concat([cache_df, new_df]) with one new row
CacheAppend ==
    /\ pc = "cache"
    /\ Len(cache_df) < MaxCacheRows
    /\ \E row \in ResultRows : cache_df' = concat(cache_df, <<row>>)
    /\ called' = <<>>
    /\ saves' = 0
    /\ disk0' = disk
    /\ UNCHANGED <<api_key, xlsx, disk, out_file, pc, exit_code, combined,
                   to_fetch, idx, results, attempt, attempt_log, loaded>>
    /\ UNCHANGED <<tenacity, waits, sleeps>>

NextCache ==
    \/ CacheSave
    \/ CacheLoad
    \/ CacheAppend

SpecCache == InitCache /\ [][NextCache]_vars

\* the content of a cache file as a set of entries
EntrySet(file) == { read_line(file.lines[n]) : n \in 2..Len(file.lines) }

(***************************************************************************)
(* C9: once the cache has been saved, saving it again, directly or after   *)
(* loading the file, with no new entry in between leaves the set of        *)
(* entries in the file as the first save left it.                          *)
(***************************************************************************)
C9_SaveIdempotent ==
    saves >= 1 => EntrySet(disk) = EntrySet(disk0)

\* a frame with a resolved and an unresolved entry was saved, loaded and saved again
C9_Witness ==
    /\ called = <<"save", "load", "save">>
    /\ \E n \in 2..Len(disk.lines) : disk.lines[n][2] = ""
    /\ \E n \in 2..Len(disk.lines) : disk.lines[n][2] # ""

(***************************************************************************)
(* C11: when the cache file is absent or cannot be read the loaded cache   *)
(* is empty, the run is not ended by it (it ends with 0, with 3 after a    *)
(* rate-limit abort, or fails on an input without records), every record   *)
(* is a row to fetch, in input order, the provider is called for them in   *)
(* that order and for all of them once the loop is over.                   *)
(***************************************************************************)
C11_SoftFailCacheLoad ==
    (disk0.state # "csv" /\ pc \notin {"start", "extract", "load"} /\ ~key_missing_env) =>
        /\ loaded = <<>>
        /\ (pc = "exit" =>
              (exit_code \in {0, 3} \/ (exit_code = 1 /\ combined = <<>>)))
        /\ Partitioned =>
              /\ Len(to_fetch) = Len(combined)
              /\ \A k \in 1..Len(combined) :
                    /\ to_fetch[k].address_for_geocoding = combined[k].address_for_geocoding
                    /\ to_fetch[k].dm_code = combined[k].dm_code
              /\ \A c \in 1..Len(called) : called[c] = combined[c].address_for_geocoding
              /\ LoopOver => Len(called) = Len(combined)
              /\ (pc = "exit" /\ exit_code = 3) => AllQuota(attempt_log)

\* a run on an unreadable cache file fetched its records and ended with 0
C11_Witness ==
    /\ pc = "exit" /\ exit_code = 0
    /\ disk0.state = "corrupt"
    /\ Len(called) >= 2

C13_FlushedBeforeExit ==
    /\ saves <= 1
    /\ (saves = 1) => (pc \in {"output", "exit"} /\ results # <<>>)
    /\ (pc = "exit" /\ exit_code \in {0, 3}) =>
          /\ (results # <<>> => saves = 1)
          /\ \A k \in 1..Len(results) :
                LET q == results[k].address_for_geocoding
                IN  /\ disk.state = "csv"
                    /\ Cardinality(FileLinesFor(q)) = 1
                    /\ \A n \in FileLinesFor(q) :
                          disk.lines[n] = csv_line(results[LastIndex(results, q)])
    /\ (pc = "exit" /\ exit_code = 0) =>
          \A k \in 1..Len(combined) :
              \E n \in 2..Len(disk.lines) :
                  /\ disk.lines[n][1] = combined[k].address_for_geocoding
                  /\ disk.lines[n][5] \in {"OK", "NOT_FOUND"} \cup ErrorStatuses

\* a run ended with 0 after it produced two rows for one query string
C13_Witness ==
    /\ pc = "exit" /\ exit_code = 0
    /\ Len(results) >= 2
    /\ results[1].address_for_geocoding = results[2].address_for_geocoding
    /\ results[1] # results[2]

(***************************************************************************)
(* parse_sheet on its own: any sheet of up to MaxRows rows                 *)
(***************************************************************************)
MaxRows == 2

\* column 0: blank, the two sentinels (bare and padded), a code, spaces only
IdCells == { NaNCell, <<"Gesamt">>, <<" ", "dm-Markt", " ">>, <<"1001">>, <<" ">> }
\* column 3: blank, the header text (padded), a street
StreetCells == { NaNCell, <<"Strasse", " ">>, <<"Ring 5">> }
\* column 4: blank, a postcode that read_excel gives as a float
PlzCells == { NaNCell, <<"1010", ".", "0">> }
CityCells == { <<"Wien">> }

SheetRows == [c0 : IdCells, c3 : StreetCells, c4 : PlzCells, c5 : CityCells]

SheetsUpTo(n) == UNION { [1..m -> SheetRows] : m \in 0..n }

InitParse ==
    /\ xlsx \in { [de |-> rows, at |-> <<>>] : rows \in SheetsUpTo(MaxRows) }
    /\ pc = "sheet"
    /\ combined = <<>>
    /\ api_key = "AIzaKey"
    /\ disk = NoFile
    /\ disk0 = NoFile
    /\ out_file = NoOutput
    /\ exit_code = -1
    /\ cache_df = <<>>
    /\ to_fetch = <<>>
    /\ idx = 0
    /\ results = <<>>
    /\ attempt = 0
    /\ attempt_log = <<>>
    /\ called = <<>>
    /\ loaded = <<>>
    /\ saves = 0
    /\ tenacity = 1
    /\ waits = <<>>
    /\ sleeps = 0

\* parse_sheet(xlsx_path, sheet_name, country_label)
ParseSheet ==
    /\ pc = "sheet"
    /\ \E country_label \in {"Germany", "Austria"} :
          combined' = parse_sheet(xlsx.de, country_label)
    /\ pc' = "parsed"
    /\ UNCHANGED <<api_key, xlsx, disk, out_file, exit_code, cache_df, to_fetch, idx,
                   results, attempt, attempt_log, called, loaded, disk0, saves>>
    /\ UNCHANGED <<tenacity, waits, sleeps>>

NextParse == ParseSheet

SpecParse == InitParse /\ [][NextParse]_vars

\* the text of a cell without the spaces around it
Trimmed(c) == Join(strip(c))

\* a row with an identifier that is not a sentinel, and with a street
HasIdAndStreet(row) ==
    /\ ~cell_isna(row.c0)
    /\ Trimmed(row.c0) \notin SkipCodes
    /\ ~cell_isna(row.c3)

\* ... whose street cell is not the header text either
IsAddressRow(row) == HasIdAndStreet(row) /\ Trimmed(row.c3) # "Strasse"

\* records are the rows of kept, one each and in their order
RecordsOf(kept) ==
    /\ Len(combined) = Len(kept)
    /\ \A k \in 1..Len(kept) :
          k <= Len(combined) =>
              /\ combined[k].dm_code = Trimmed(kept[k].c0)
              /\ combined[k].Strasse = Trimmed(kept[k].c3)

NoSentinelRecord ==
    \A k \in 1..Len(combined) : combined[k].dm_code \notin SkipCodes

(***************************************************************************)
(* C14 as stated: no record has a sentinel code, and the records are, one  *)
(* each and in input order, the rows that have an identifier cell that is  *)
(* not a sentinel and a street cell.                                       *)
(***************************************************************************)
C14_EveryOtherRowYieldsRecord ==
    pc = "parsed" =>
        /\ NoSentinelRecord
        /\ RecordsOf(SelectSeq(xlsx.de, HasIdAndStreet))

(***************************************************************************)
(* C14: no record has a sentinel code; the records are, one each and in    *)
(* input order, the rows that have an identifier cell that is not a        *)
(* sentinel after trimming and a street cell that is not "Strasse" after   *)
(* trimming; a sheet of one such row and one "Gesamt" row gives exactly    *)
(* one record.                                                             *)
(***************************************************************************)
C14_NoSentinelRecord ==
    pc = "parsed" =>
        /\ NoSentinelRecord
        /\ RecordsOf(SelectSeq(xlsx.de, IsAddressRow))
        /\ (/\ Len(xlsx.de) = 2
            /\ \E i, j \in 1..2 :
                  /\ i # j
                  /\ IsAddressRow(xlsx.de[i])
                  /\ Trimmed(xlsx.de[j].c0) = "Gesamt") => Len(combined) = 1

\* a sheet of an address row and a "Gesamt" row was parsed to one record
C14_Witness ==
    /\ pc = "parsed"
    /\ Len(xlsx.de) = 2
    /\ IsAddressRow(xlsx.de[1])
    /\ ~cell_isna(xlsx.de[2].c0) /\ Trimmed(xlsx.de[2].c0) = "Gesamt"
    /\ Len(combined) = 1
    /\ combined[1].dm_code = "1001"

\* the rows of the written workbook, sheet "dm DE" then sheet "dm AT"
OutputRows == out_file.de \o out_file.at

(***************************************************************************)
(* C15: when a run has ended with 0 the output holds exactly one row per   *)
(* extracted record, in the records' order, and the row carries the        *)
(* coordinates and the status of the latest entry of its query string in   *)
(* the cache (also when the query string had a NOT_FOUND or ERROR entry in *)
(* the loaded cache and was fetched again in this run).                    *)
(***************************************************************************)
C15_OneRowPerRecord ==
    (pc = "exit" /\ exit_code = 0) =>
        /\ Len(OutputRows) = Len(combined)
        /\ \A k \in 1..Len(combined) :
              k <= Len(OutputRows) =>
                  LET q == combined[k].address_for_geocoding
                      e == cache_df[LastIndex(cache_df, q)]
                  IN  /\ OutputRows[k].dm_code = combined[k].dm_code
                      /\ OutputRows[k].geocode_status = e.geocode_status
                      /\ OutputRows[k].szerokosc = e.latitude
                      /\ OutputRows[k].dlugosc = e.longitude

IsPrefix(p, q) == Len(p) <= Len(q) /\ \A k \in 1..Len(p) : p[k] = q[k]

(***************************************************************************)
(* C16 as stated: the waits between the attempts for one address are 2,    *)
(* then each the double of the one before, none above 60: they are the     *)
(* first waits of 2, 4, 8, 16, 32.                                         *)
(***************************************************************************)
C16_EachWaitDoubles ==
    /\ waits # <<>> => waits[1] = 2
    /\ \A k \in 2..Len(waits) : waits[k] = 2 * waits[k - 1]
    /\ \A k \in 1..Len(waits) : waits[k] <= 60
    /\ IsPrefix(waits, <<2, 4, 8, 16, 32>>)

(***************************************************************************)
(* C16: there are at most five waits between the attempts for one address, *)
(* one after each attempt that ended on a quota answer but the sixth; the  *)
(* first is 2, each later one is the one before or its double, none is    *)
(* above 60; they are the first waits of 2, 2, 4, 8, 16 when the wait      *)
(* after attempt n is 2^(n-1) raised to the lower limit 2, and of          *)
(* 2, 4, 8, 16, 32 when it is 2^n.                                         *)
(***************************************************************************)
C16_BackoffWaits ==
    /\ Len(waits) <= MaxAttempts - 1
    /\ pc = "call" => Len(waits) = Len(attempt_log)
    /\ (pc \in {"wait", "sleep"} \/ (pc = "exit" /\ exit_code = 3)) =>
          Len(waits) = Len(attempt_log) - 1
    /\ pc \in {"call", "wait", "sleep"} =>
          \A k \in 1..Len(waits) : attempt_log[k] = "quota"
    /\ waits # <<>> => waits[1] = WaitMin
    /\ \A k \in 2..Len(waits) : waits[k] \in {waits[k - 1], 2 * waits[k - 1]}
    /\ \A k \in 1..Len(waits) : waits[k] <= WaitMax
    /\ tenacity = 1 => IsPrefix(waits, <<2, 2, 4, 8, 16>>)
    /\ tenacity = 0 => IsPrefix(waits, <<2, 4, 8, 16, 32>>)

\* the sixth attempt for an address was made after five waits of 2, 2, 4, 8, 16
C16_Witness ==
    /\ pc = "exit" /\ exit_code = 3
    /\ waits = <<2, 2, 4, 8, 16>>

(***************************************************************************)
(* C17: the provider is called for the rows to fetch one after the other,  *)
(* in their order: while the call for row idx is going (first attempt,     *)
(* waits and retries) the rows before it, and only they, have their result *)
(* row, in order, and time.sleep has run once after each of them; the next *)
(* call starts only when the result row of row idx is recorded and the     *)
(* sleep after it has run.                                                 *)
(***************************************************************************)
C17_SequentialLookups ==
    Partitioned =>
        /\ \A c \in 1..Len(called) :
              c <= Len(to_fetch) /\ called[c] = to_fetch[c].address_for_geocoding
        /\ \A k \in 1..Len(results) :
              k <= Len(to_fetch)
              /\ results[k].address_for_geocoding = to_fetch[k].address_for_geocoding
        /\ pc \in {"call", "wait"} =>
              /\ Len(called) = idx /\ Last(called) = addr
              /\ Len(results) = idx - 1
              /\ sleeps = idx - 1
        /\ pc = "sleep" =>
              /\ Len(called) = idx
              /\ Len(results) = idx
              /\ sleeps = idx - 1
        /\ pc \in {"loop", "output"} =>
              /\ Len(called) = idx - 1
              /\ Len(results) = idx - 1
              /\ sleeps = idx - 1
        /\ (pc = "exit" /\ exit_code = 3) =>
              /\ Len(called) = idx
              /\ Len(results) = idx - 1
              /\ sleeps = idx - 1

\* the call for the second row to fetch is at a retry; the first row has its
\* result row and the sleep after it has run
C17_Witness ==
    /\ pc = "call"
    /\ idx = 2
    /\ attempt >= 1
    /\ Len(results) = 1
    /\ sleeps = 1
    /\ called[1] # called[2]

\* line n of the file the run started with is a resolved entry
ResolvedLine(n) ==
    /\ disk0.lines[n][5] = "OK"
    /\ disk0.lines[n][2] # ""
    /\ disk0.lines[n][3] # ""

(***************************************************************************)
(* C18: every entry of the cache file of the run's start that has status   *)
(* OK and coordinates is in the cache file, with the same fields, in every *)
(* state of the run and so when it ends, with whatever exit code and also  *)
(* when its query string is not in the input.                              *)
(***************************************************************************)
C18_ResolvedEntriesSurvive ==
    (disk0.state = "csv" /\ UniqueKeys(load_or_create_cache(disk0))) =>
        \A n \in 2..Len(disk0.lines) :
            ResolvedLine(n) =>
                /\ disk.state = "csv"
                /\ Cardinality({ m \in 2..Len(disk.lines) :
                        disk.lines[m][1] = disk0.lines[n][1] }) = 1
                /\ \E m \in 2..Len(disk.lines) : disk.lines[m] = disk0.lines[n]

\* a run that saved new rows and then ended with 3 started with a resolved
\* entry for a query string that is not in its input
C18_Witness ==
    /\ pc = "exit" /\ exit_code = 3
    /\ saves = 1
    /\ disk0.state = "csv"
    /\ \E n \in 2..Len(disk0.lines) :
          /\ ResolvedLine(n)
          /\ \A k \in 1..Len(combined) :
                combined[k].address_for_geocoding # disk0.lines[n][1]

(***************************************************************************)
(* C19: no call of geocode_one makes more than six attempts, and a run     *)
(* that has ended has ended with exit code 0, 2 or 3.                      *)
(***************************************************************************)
C19_RunEndsWithKnownCode ==
    /\ attempt <= MaxAttempts
    /\ Len(attempt_log) <= MaxAttempts
    /\ pc = "exit" => exit_code \in {0, 2, 3}

====
